---- MODULE Spec2Model ----
(***************************************************************************)
(* Model of the Nexus front-end (App component): the virtual file tree     *)
(* (updateFileByPath, findPath, findAndSelectFile, findOrCreateFile) under *)
(* TreeSpec, and the application around it (the run of handleStartTask,    *)
(* the editor, the file browser, the commit) under Spec.                   *)
(*                                                                         *)
(* JavaScript objects have identity, so the tree lives in a heap: a        *)
(* FileNode is an index into heap.nodes, a FileNode[] array an index into  *)
(* heap.arrays (a sequence of node ids).  Allocation appends to the heap.  *)
(* Strings that the code takes apart (paths, names) are sequences of       *)
(* one-character strings, so that split('/') is computed, not assumed.     *)
(***************************************************************************)
EXTENDS Integers, Sequences, FiniteSets, TLC

VARIABLES
    heap,      \* [nodes, arrays]: every object allocated so far
    heap0,     \* the heap as it was when the current operation was called
    files,     \* the tree the operation was given (an array id)
    op,        \* "idle", or the operation that has just returned
    path,      \* the path argument of the operation
    content,   \* the content argument of the operation
    target,    \* the node argument of findPath
    outFiles,  \* the tree the operation returned (an array id), or Null
    outNode,   \* the node the operation returned, or Null
    outPath,   \* the path findPath returned, or NullPath
    task,          \* the task text of the textarea
    isRunning,     \* the run flag
    logs,          \* the log feed
    agents,        \* project.agents: the status of every agent role
    selectedFile,  \* the node shown in the editor and the preview, or Null
    activeTab,     \* the workspace tab shown
    pending,       \* the external calls in flight, each with the handler that awaits it
    startOutcome,  \* what the latest call of handleStartTask did
    count,         \* how many runs, task changes, edits, commits and returns of calls there have been
    trace          \* the calls, returns and tree updates of the latest run

appVars == <<task, isRunning, logs, agents, selectedFile, activeTab, pending,
             startOutcome, count, trace>>

vars == <<heap, heap0, files, op, path, content, target, outFiles, outNode, outPath,
          task, isRunning, logs, agents, selectedFile, activeTab, pending,
          startOutcome, count, trace>>

----------------------------------------------------------------------------
(* Bounds of the model *)

MaxPathLen == 4      \* the longest path string tried
MaxNodes == 3        \* the largest tree built

Letters == {"a", "A"}
Slash == "/"
Chars == Letters \cup {Slash}
Contents == {"c1", "c2"}

----------------------------------------------------------------------------
(* JavaScript values *)

Null == 0                      \* null / undefined, where a node or array is expected
NoContent == "undefined"       \* a FileNode without a content property
NullPath == <<"null">>         \* the null that findPath returns instead of a string
EmptyString == <<>>

\* JavaScript truthiness of a string: the empty string is falsy
Truthy(s) == s # EmptyString

FileNode(name, type, c, children) ==
    [name |-> name, type |-> type, content |-> c, children |-> children]

EmptyHeap == [nodes |-> <<>>, arrays |-> <<>>]

----------------------------------------------------------------------------
(* Trees by value: a sequence of [name, type, content, children] records   *)
(* whose children are again such sequences.                                *)

RECURSIVE ToValue(_, _)
ToValue(h, arr) ==
    [i \in 1..Len(h.arrays[arr]) |->
        LET o == h.nodes[h.arrays[arr][i]]
        IN  [name |-> o.name, type |-> o.type, content |-> o.content,
             children |-> IF o.children = Null THEN <<>> ELSE ToValue(h, o.children)]]

RECURSIVE AllocArray(_, _)
RECURSIVE AllocNodes(_, _, _)
\* the array literal vs, allocated in h: [h, r] with r the new array's id
AllocArray(h, vs) ==
    LET a == AllocNodes(h, vs, <<>>)
    IN  [h |-> [a.h EXCEPT !.arrays = Append(@, a.r)], r |-> Len(a.h.arrays) + 1]

AllocNodes(h, vs, acc) ==
    IF vs = <<>> THEN [h |-> h, r |-> acc]
    ELSE LET v == Head(vs)
             sub == IF v.type = "folder" THEN AllocArray(h, v.children)
                    ELSE [h |-> h, r |-> Null]
             h1 == [sub.h EXCEPT !.nodes =
                        Append(@, FileNode(v.name, v.type, v.content, sub.r))]
         IN  AllocNodes(h1, Tail(vs), Append(acc, Len(h1.nodes)))

RECURSIVE NodeCount(_)
RECURSIVE SumCounts(_, _)
NodeCount(vs) == SumCounts(vs, 1)
SumCounts(vs, i) ==
    IF i > Len(vs) THEN 0 ELSE 1 + NodeCount(vs[i].children) + SumCounts(vs, i + 1)

\* node ids and array ids reachable from array arr
RECURSIVE NodesOf(_, _)
NodesOf(h, arr) ==
    UNION { {h.arrays[arr][i]} \cup
            (IF h.nodes[h.arrays[arr][i]].children = Null THEN {}
             ELSE NodesOf(h, h.nodes[h.arrays[arr][i]].children))
          : i \in 1..Len(h.arrays[arr]) }

ArraysOf(h, arr) ==
    {arr} \cup { h.nodes[n].children : n \in { m \in NodesOf(h, arr) : h.nodes[m].children # Null } }

----------------------------------------------------------------------------
(* String.prototype.split('/') and Array.prototype.filter(p => p) *)

RECURSIVE Split(_)
Split(s) ==
    IF \E i \in 1..Len(s) : s[i] = Slash
    THEN LET i == CHOOSE k \in 1..Len(s) : s[k] = Slash /\ \A j \in 1..(k - 1) : s[j] # Slash
         IN  <<SubSeq(s, 1, i - 1)>> \o Split(SubSeq(s, i + 1, Len(s)))
    ELSE <<s>>

FilterParts(parts) == SelectSeq(parts, Truthy)

\* element i of the array arr
At(h, arr, i) == h.nodes[h.arrays[arr][i]]

Indices(h, arr) == 1..Len(h.arrays[arr])

\* Array.prototype.findIndex: the first of the indices hits whose elements pass
\* the test, or -1
FindIndex(hits) ==
    IF hits = {} THEN -1 ELSE CHOOSE i \in hits : \A j \in hits : i <= j

\* Array.prototype.find over the array arr: the element at that index, or undefined
Find(h, arr, hits) ==
    IF FindIndex(hits) = -1 THEN Null ELSE h.arrays[arr][FindIndex(hits)]

----------------------------------------------------------------------------
(* updateFileByPath *)

\* mutant: the test tail.length === 0 is forgotten
IsUpdateTargetAnyDepth(node, head, tail) ==
    node.name = head /\ node.type = "file"

\* the node is the file to update
IsUpdateTarget(node, head, tail) ==
    node.name = head /\ Len(tail) = 0 /\ node.type = "file"

\* the node is a folder to descend into
IsUpdateFolder(node, head) ==
    node.name = head /\ node.type = "folder" /\ node.children # Null

RECURSIVE recursiveUpdate(_, _, _, _, _)
RECURSIVE MapNodes(_, _, _, _, _, _, _, _)

\* [h, found, r]: the heap, foundFile and the returned array
recursiveUpdate(h, found, currentNodes, currentPath, c) ==
    IF Len(currentPath) = 0 THEN [h |-> h, found |-> found, r |-> currentNodes]
    ELSE LET m == MapNodes(h, found, h.arrays[currentNodes], Head(currentPath),
                           Tail(currentPath), c, 1, <<>>)
         IN  [h |-> [m.h EXCEPT !.arrays = Append(@, m.r)],
              found |-> m.found,
              r |-> Len(m.h.arrays) + 1]

\* currentNodes.map(node => ...), element i onwards; acc is the new array so far
MapNodes(h, found, items, head, tail, c, i, acc) ==
    IF i > Len(items) THEN [h |-> h, found |-> found, r |-> acc]
    ELSE LET node == h.nodes[items[i]] IN
         IF IsUpdateTarget(node, head, tail)
         THEN LET h1 == [h EXCEPT !.nodes = Append(@, [node EXCEPT !.content = c])]
              IN  MapNodes(h1, Len(h1.nodes), items, head, tail, c, i + 1,
                           Append(acc, Len(h1.nodes)))
         ELSE IF IsUpdateFolder(node, head)
         THEN LET sub == recursiveUpdate(h, found, node.children, tail, c)
                  h1 == [sub.h EXCEPT !.nodes = Append(@, [node EXCEPT !.children = sub.r])]
              IN  MapNodes(h1, sub.found, items, head, tail, c, i + 1,
                           Append(acc, Len(h1.nodes)))
         ELSE MapNodes(h, found, items, head, tail, c, i + 1, Append(acc, items[i]))

\* [h, r, found]: the heap, updatedNodes and foundFile
updateFileByPath(h, nodes, p, c) ==
    recursiveUpdate(h, Null, nodes, Split(p), c)

----------------------------------------------------------------------------
(* findPath (of handleFileContentChange) *)

\* mutant: the path of a node is its name, whatever folder it is in
NewPathOfNameOnly(currentPath, name) == name

\* `${currentPath}/${node.name}` or node.name
NewPath(currentPath, name) ==
    IF Truthy(currentPath) THEN currentPath \o <<Slash>> \o name ELSE name

\* if (found): a string that is neither null nor empty
FoundPath(found) == found # NullPath /\ Truthy(found)

RECURSIVE findPath(_, _, _, _, _)
\* the for loop of findPath over nodes, from element i
findPath(h, nodes, tgt, currentPath, i) ==
    IF i > Len(h.arrays[nodes]) THEN NullPath
    ELSE LET n == h.arrays[nodes][i]
             node == h.nodes[n]
             newPath == NewPath(currentPath, node.name)
         IN  IF n = tgt THEN newPath
             ELSE LET found == IF node.type = "folder" /\ node.children # Null
                               THEN findPath(h, node.children, tgt, newPath, 1)
                               ELSE NullPath
                  IN  IF FoundPath(found) THEN found
                      ELSE findPath(h, nodes, tgt, currentPath, i + 1)

----------------------------------------------------------------------------
(* findAndSelectFile *)

\* mutant: the test node.type === 'file' is forgotten
IsLastPart(node, part, parts) == part = parts[Len(parts)]

\* node.type === 'file' && part === parts[parts.length - 1]
IsFoundFile(node, part, parts) ==
    node.type = "file" /\ part = parts[Len(parts)]

RECURSIVE findLoop(_, _, _, _)
\* the for loop over parts, from part i
findLoop(h, currentLevel, parts, i) ==
    IF i > Len(parts) THEN Null
    ELSE IF currentLevel = Null THEN Null
    ELSE LET n == Find(h, currentLevel,
                       { k \in Indices(h, currentLevel) : At(h, currentLevel, k).name = parts[i] })
         IN  IF n = Null THEN Null
             ELSE IF IsFoundFile(h.nodes[n], parts[i], parts) THEN n
             ELSE findLoop(h, h.nodes[n].children, parts, i + 1)

findAndSelectFile(h, nodes, p) == findLoop(h, nodes, FilterParts(Split(p)), 1)

----------------------------------------------------------------------------
(* findOrCreateFile *)

RECURSIVE CopyArray(_, _)
RECURSIVE CopyNodes(_, _, _, _)
CopyArray(h, arr) ==
    LET a == CopyNodes(h, h.arrays[arr], 1, <<>>)
    IN  [h |-> [a.h EXCEPT !.arrays = Append(@, a.r)], r |-> Len(a.h.arrays) + 1]

CopyNodes(h, items, i, acc) ==
    IF i > Len(items) THEN [h |-> h, r |-> acc]
    ELSE LET node == h.nodes[items[i]]
             sub == IF node.children = Null THEN [h |-> h, r |-> Null]
                    ELSE CopyArray(h, node.children)
             h1 == [sub.h EXCEPT !.nodes = Append(@, [node EXCEPT !.children = sub.r])]
         IN  CopyNodes(h1, items, i + 1, Append(acc, Len(h1.nodes)))

\* mutant: [...nodes], a new top-level array of the same node objects
ShallowCopy(h, nodes) ==
    [h |-> [h EXCEPT !.arrays = Append(@, h.arrays[nodes])], r |-> Len(h.arrays) + 1]

\* JSON.parse(JSON.stringify(nodes)): a copy of every array and every node
JsonDeepCopy(h, nodes) == CopyArray(h, nodes)

IsFolderNamed(n, part) == n.name = part /\ n.type = "folder"

\* mutant: the type test of the folder loop, copied to the file step
IsFileNamedAsFolder(n, fileName) == n.name = fileName /\ n.type = "folder"

IsFileNamed(n, fileName) == n.name = fileName /\ n.type = "file"

\* mutant: currentLevel.unshift(node)
Unshift(h, arr, node) ==
    LET h1 == [h EXCEPT !.nodes = Append(@, node)]
    IN  [h1 EXCEPT !.arrays[arr] = <<Len(h1.nodes)>> \o @]

\* currentLevel.push(node): the array is changed in place
Push(h, arr, node) ==
    LET h1 == [h EXCEPT !.nodes = Append(@, node)]
    IN  [h1 EXCEPT !.arrays[arr] = Append(@, Len(h1.nodes))]

RECURSIVE folderLoop(_, _, _, _)
\* the for loop over the folder parts, from part i: [h, r] with r the last currentLevel
folderLoop(h, currentLevel, parts, i) ==
    IF i > Len(parts) THEN [h |-> h, r |-> currentLevel]
    ELSE LET found == Find(h, currentLevel,
                           { k \in Indices(h, currentLevel) :
                                 IsFolderNamed(At(h, currentLevel, k), parts[i]) })
         IN  IF found # Null
             THEN folderLoop(h, h.nodes[found].children, parts, i + 1)
             ELSE LET h1 == [h EXCEPT !.arrays = Append(@, <<>>)]
                      children == Len(h1.arrays)
                      h2 == Push(h1, currentLevel,
                                 FileNode(parts[i], "folder", NoContent, children))
                  IN  folderLoop(h2, children, parts, i + 1)

\* mutant: the new file takes the place of everything in its folder
PutFileAlone(h, currentLevel, fileName, c) ==
    LET h1 == [h EXCEPT !.nodes = Append(@, FileNode(fileName, "file", c, Null))]
    IN  [h1 EXCEPT !.arrays[currentLevel] = <<Len(h1.nodes)>>]

\* the file step: replace the content of the file, or push a new file
PutFile(h, currentLevel, fileName, c) ==
    LET fileIndex == FindIndex({ k \in Indices(h, currentLevel) :
                                      IsFileNamed(At(h, currentLevel, k), fileName) })
    IN  IF fileIndex # -1
        THEN [h EXCEPT !.nodes[h.arrays[currentLevel][fileIndex]].content = c]
        ELSE Push(h, currentLevel, FileNode(fileName, "file", c, Null))

\* [h, r]: the heap and newNodes
findOrCreateFile(h, nodes, p, c) ==
    LET cp == JsonDeepCopy(h, nodes)
        all == FilterParts(Split(p))
    IN  IF Len(all) = 0 THEN cp
        ELSE LET fileName == all[Len(all)]
                 parts == SubSeq(all, 1, Len(all) - 1)
                 w == folderLoop(cp.h, cp.r, parts, 1)
             IN  [h |-> PutFile(w.h, w.r, fileName, c), r |-> cp.r]

----------------------------------------------------------------------------
(* The tree functions as a state machine: from "idle" one function is      *)
(* called on the current tree with arguments drawn from bounded sets; its  *)
(* arguments and results stay in the state until the caller stores the     *)
(* returned tree (setFiles) or drops the result.                           *)

\* the values the component state starts with (useState, useRef)
Roles == {"Planner", "Coder", "Tester", "Documenter"}
AVAILABLE_AGENTS == [r \in Roles |-> "Idle"]
InitialTask == <<"t">>

UseState ==
    /\ task = InitialTask
    /\ isRunning = FALSE
    /\ logs = <<>>
    /\ agents = AVAILABLE_AGENTS
    /\ selectedFile = Null
    /\ activeTab = "explorer"
    /\ pending = <<>>
    /\ startOutcome = "none"
    /\ count = [runs |-> 0, tasks |-> 0, edits |-> 0, commits |-> 0, returns |-> 0]
    /\ trace = <<>>

RECURSIVE SeqsUpTo(_)
\* the strings over Chars of length at most n
SeqsUpTo(n) ==
    IF n = 0 THEN {<<>>}
    ELSE LET shorter == SeqsUpTo(n - 1)
         IN  shorter \cup { Append(s, ch) : s \in { t \in shorter : Len(t) = n - 1 }, ch \in Chars }

Paths == SeqsUpTo(MaxPathLen)

\* the initial file structures: the empty forest, a forest with an empty folder
\* (as 'components' in INITIAL_FILE_STRUCTURE), and a folder beside a file
Seeds ==
    { <<>>,
      << FileNode(<<"a">>, "folder", NoContent, <<>>) >>,
      << FileNode(<<"a">>, "folder", NoContent,
                  << FileNode(<<"A">>, "file", "c1", <<>>) >>),
         FileNode(<<"A">>, "file", "c1", <<>>) >> }

TreeInit ==
    \E seed \in Seeds :
        LET a == AllocArray(EmptyHeap, seed)
        IN  /\ heap = a.h
            /\ heap0 = a.h
            /\ files = a.r
            /\ op = "idle"
            /\ path = EmptyString
            /\ content = NoContent
            /\ target = Null
            /\ outFiles = Null
            /\ outNode = Null
            /\ outPath = NullPath
            /\ UseState

\* const [updatedFiles, updatedFile] = updateFileByPath(files, filePath, newContent)
UpdateFileByPath(p, c) ==
    /\ op = "idle"
    /\ LET u == updateFileByPath(heap, files, p, c)
       IN  /\ heap' = u.h
           /\ outFiles' = u.r
           /\ outNode' = u.found
    /\ heap0' = heap
    /\ op' = "updateFileByPath"
    /\ path' = p
    /\ content' = c
    /\ UNCHANGED <<files, target, outPath>>
    /\ UNCHANGED appVars

\* findAndSelectFile(files, path)
FindAndSelectFile(p) ==
    /\ op = "idle"
    /\ outNode' = findAndSelectFile(heap, files, p)
    /\ heap0' = heap
    /\ op' = "findAndSelectFile"
    /\ path' = p
    /\ UNCHANGED <<heap, files, content, target, outFiles, outPath>>
    /\ UNCHANGED appVars

\* findPath(files, selectedFile)
FindPath(n) ==
    /\ op = "idle"
    /\ outPath' = findPath(heap, files, n, EmptyString, 1)
    /\ heap0' = heap
    /\ op' = "findPath"
    /\ target' = n
    /\ UNCHANGED <<heap, files, path, content, outFiles, outNode>>
    /\ UNCHANGED appVars

\* the names that nodes are created with
Names == { <<l>> : l \in Letters }

\* the path creates nodes with names of Names only, and the tree stays within MaxNodes
WithinBounds(h, nodes, p) ==
    /\ \A i \in DOMAIN Split(p) : Split(p)[i] \in Names \cup {EmptyString}
    /\ NodeCount(ToValue(h, nodes)) <= MaxNodes

\* updatedFiles = findOrCreateFile(files, filePath, code)
FindOrCreateFile(p, c) ==
    /\ op = "idle"
    /\ LET f == findOrCreateFile(heap, files, p, c)
       IN  /\ WithinBounds(f.h, f.r, p)
           /\ heap' = f.h
           /\ outFiles' = f.r
    /\ heap0' = heap
    /\ op' = "findOrCreateFile"
    /\ path' = p
    /\ content' = c
    /\ UNCHANGED <<files, target, outNode, outPath>>
    /\ UNCHANGED appVars

\* findOrCreateFile called once more on its own result, with the same arguments
FindOrCreateFileAgain ==
    /\ op = "findOrCreateFile"
    /\ LET f == findOrCreateFile(heap, outFiles, path, content)
       IN  /\ heap' = f.h
           /\ outFiles' = f.r
    /\ heap0' = heap
    /\ files' = outFiles
    /\ op' = "findOrCreateFileAgain"
    /\ UNCHANGED <<path, content, target, outNode, outPath>>
    /\ UNCHANGED appVars

\* the state with tree v and no call in progress; objects no longer referenced
\* are dropped and the live ones renumbered
Idle(v) ==
    LET a == AllocArray(EmptyHeap, v)
    IN  /\ heap' = a.h
        /\ heap0' = a.h
        /\ files' = a.r
        /\ op' = "idle"
        /\ path' = EmptyString
        /\ content' = NoContent
        /\ target' = Null
        /\ outFiles' = Null
        /\ outNode' = Null
        /\ outPath' = NullPath
        /\ UNCHANGED appVars

\* setFiles(updatedFiles): the returned tree becomes the current tree
SetFiles ==
    /\ op \in {"updateFileByPath", "findOrCreateFile", "findOrCreateFileAgain"}
    /\ Idle(ToValue(heap, outFiles))

\* the result of a lookup is dropped; the tree stays
Return ==
    /\ op \in {"findAndSelectFile", "findPath"}
    /\ Idle(ToValue(heap, files))

TreeNext ==
    \/ \E p \in Paths, c \in Contents : UpdateFileByPath(p, c)
    \/ \E p \in Paths : FindAndSelectFile(p)
    \/ \E n \in NodesOf(heap, files) : FindPath(n)
    \/ \E p \in Paths, c \in Contents : FindOrCreateFile(p, c)
    \/ FindOrCreateFileAgain
    \/ SetFiles
    \/ Return

TreeSpec == TreeInit /\ [][TreeNext]_vars

----------------------------------------------------------------------------
(* What the specification means by a path that resolves (section 4.1,      *)
(* lookup): empty segments are dropped, each interior segment must match a *)
(* folder, the last segment a node of either type; the first sibling with  *)
(* the name is the match.                                                  *)

RECURSIVE Resolve(_, _, _, _)
Resolve(h, level, parts, i) ==
    IF i > Len(parts) THEN Null
    ELSE LET n == Find(h, level, { k \in Indices(h, level) : At(h, level, k).name = parts[i] })
         IN  IF n = Null THEN Null
             ELSE IF i = Len(parts) THEN n
             ELSE IF h.nodes[n].type = "folder" /\ h.nodes[n].children # Null
                  THEN Resolve(h, h.nodes[n].children, parts, i + 1)
                  ELSE Null

ResolvePath(h, nodes, p) == Resolve(h, nodes, FilterParts(Split(p)), 1)

ResolvesToFile(h, nodes, p) ==
    ResolvePath(h, nodes, p) # Null /\ h.nodes[ResolvePath(h, nodes, p)].type = "file"

ResolvesToFolder(h, nodes, p) ==
    ResolvePath(h, nodes, p) # Null /\ h.nodes[ResolvePath(h, nodes, p)].type = "folder"

\* the nodes on the way from the root to the node that parts resolves to
RECURSIVE NodesOnPath(_, _, _, _)
NodesOnPath(h, level, parts, i) ==
    IF i > Len(parts) THEN {}
    ELSE LET n == Find(h, level, { k \in Indices(h, level) : At(h, level, k).name = parts[i] })
         IN  IF n = Null THEN {}
             ELSE IF i < Len(parts) /\ h.nodes[n].children # Null
                  THEN {n} \cup NodesOnPath(h, h.nodes[n].children, parts, i + 1)
                  ELSE {n}

\* the tree newArr has, off the path, the very nodes of the tree oldArr
RECURSIVE SharedOffPath(_, _, _, _)
SharedOffPath(h, oldArr, newArr, onPath) ==
    /\ Len(h.arrays[newArr]) = Len(h.arrays[oldArr])
    /\ \A i \in 1..Len(h.arrays[oldArr]) :
          LET o == h.arrays[oldArr][i]
              n == h.arrays[newArr][i]
          IN  IF o \in onPath
              THEN h.nodes[o].children # Null =>
                     /\ h.nodes[n].children # Null
                     /\ SharedOffPath(h, h.nodes[o].children, h.nodes[n].children, onPath)
              ELSE n = o

\* the objects of the tree nodes in h0 are the same objects, unchanged, in h
Untouched(h0, h, nodes) ==
    /\ \A n \in NodesOf(h0, nodes) : h.nodes[n] = h0.nodes[n]
    /\ \A a \in ArraysOf(h0, nodes) : h.arrays[a] = h0.arrays[a]

----------------------------------------------------------------------------
(* Claims *)

\* C1: for every tree T and every path p that resolves to a file in T,
\* updateFileByPath(T, p, c) followed by findAndSelectFile(newRoot, p) returns a
\* file node whose content is exactly c.
C1_UpdateThenLookup ==
    (op = "updateFileByPath" /\ ResolvesToFile(heap0, files, path)) =>
        LET n == findAndSelectFile(heap, outFiles, path)
        IN  /\ n # Null
            /\ heap.nodes[n].type = "file"
            /\ heap.nodes[n].content = content

\* C2: after updateFileByPath(T, p, c) on a path that resolves to a file, every
\* node of the new tree that is not on the path from the root to p is the same
\* node, by reference, as its counterpart in T.
C2_StructuralSharing ==
    (op = "updateFileByPath" /\ ResolvesToFile(heap0, files, path)) =>
        SharedOffPath(heap, files, outFiles,
                      NodesOnPath(heap0, files, FilterParts(Split(path)), 1))

\* C3: for every tree and every path that is not present in it,
\* findAndSelectFile returns null; also when a non-terminal segment resolves to a
\* file, and when the path differs from an existing one only in letter case.
C3_LookupOfAbsentPath ==
    (op = "findAndSelectFile" /\ ResolvePath(heap, files, path) = Null) =>
        outNode = Null

RECURSIVE ReachesFile(_, _, _)
ReachesFile(h, level, parts) ==
    \E i \in 1..Len(h.arrays[level]) :
        LET node == h.nodes[h.arrays[level][i]]
        IN  /\ node.name = Head(parts)
            /\ IF Len(parts) = 1 THEN node.type = "file"
               ELSE /\ node.type = "folder"
                    /\ node.children # Null
                    /\ ReachesFile(h, node.children, Tail(parts))

C5_InputTreeNotModified ==
    op \in {"updateFileByPath", "findOrCreateFile", "findOrCreateFileAgain"} =>
        /\ Untouched(heap0, heap, files)
        /\ ToValue(heap, files) = ToValue(heap0, files)

\* C5 witness: findOrCreateFile replaced the content of an existing file, so
\* the returned tree differs from the input tree
C5_Witness ==
    /\ op = "findOrCreateFile"
    /\ NodeCount(ToValue(heap, outFiles)) = NodeCount(ToValue(heap0, files))
    /\ ToValue(heap, outFiles) # ToValue(heap0, files)

\* C6: findOrCreateFile is idempotent: applied again to its own result with the
\* same path and content, it returns a tree equal in value to that result.
C6_Idempotent ==
    op = "findOrCreateFileAgain" =>
        ToValue(heap, outFiles) = ToValue(heap, files)

\* C6 witness: the second call was made for a path with a folder and a file
C6_Witness ==
    /\ op = "findOrCreateFileAgain"
    /\ Len(FilterParts(Split(path))) = 2
    /\ findAndSelectFile(heap, outFiles, path) # Null

\* the tree vout is the tree vin with exactly the nodes added that are missing
\* along rest (the part of the path that leads into vin; empty off the path):
\* a missing folder or file is appended as the last child of its level, an
\* existing folder of the path is entered, not duplicated, and every node of
\* vin keeps its position, name, type and (but for the target file) content
RECURSIVE AddsExactly(_, _, _, _)
AddsExactly(vin, vout, rest, c) ==
    LET IsTarget(v) == Len(rest) = 1 /\ v.type = "file" /\ v.name = rest[1]
        IsPathFolder(v) == Len(rest) > 1 /\ v.type = "folder" /\ v.name = rest[1]
        First(i) == \A j \in 1..(i - 1) : ~IsTarget(vin[j]) /\ ~IsPathFolder(vin[j])
        missing == /\ Len(rest) > 0
                   /\ \A i \in 1..Len(vin) : ~IsTarget(vin[i]) /\ ~IsPathFolder(vin[i])
    IN  /\ Len(vout) = Len(vin) + (IF missing THEN 1 ELSE 0)
        /\ \A i \in 1..Len(vin) :
              /\ vout[i].name = vin[i].name
              /\ vout[i].type = vin[i].type
              /\ vout[i].content = IF IsTarget(vin[i]) /\ First(i) THEN c ELSE vin[i].content
              /\ AddsExactly(vin[i].children, vout[i].children,
                             IF IsPathFolder(vin[i]) /\ First(i) THEN Tail(rest) ELSE <<>>, c)
        /\ missing =>
              LET v == vout[Len(vout)]
              IN  /\ v.name = rest[1]
                  /\ IF Len(rest) = 1
                     THEN v.type = "file" /\ v.content = c /\ v.children = <<>>
                     ELSE /\ v.type = "folder"
                          /\ v.content = NoContent
                          /\ AddsExactly(<<>>, v.children, Tail(rest), c)

\* C7: findOrCreateFile(T, p, c) adds exactly the nodes missing along p and
\* nothing else: each missing folder is appended, in path order, as the last
\* child of its level, an existing folder is reused, and every node of T keeps
\* its position, name, type and (except for the target file) its content.
C7_AddsExactlyTheMissingNodes ==
    op = "findOrCreateFile" =>
        AddsExactly(ToValue(heap0, files), ToValue(heap, outFiles),
                    FilterParts(Split(path)), content)

\* C7 witness: a folder and a file in it were both missing and were added to
\* a tree that was not empty
C7_Witness ==
    /\ op = "findOrCreateFile"
    /\ Len(FilterParts(Split(path))) = 2
    /\ NodeCount(ToValue(heap0, files)) > 0
    /\ NodeCount(ToValue(heap, outFiles)) = NodeCount(ToValue(heap0, files)) + 2

\* C8: for every tree T, every path p with at least one non-empty segment and
\* every content c, findAndSelectFile(findOrCreateFile(T, p, c), p) returns a
\* file node whose content is exactly c, also when T already holds a node of
\* the other type with the name of a segment of p.
C8_CreateThenLookup ==
    (op = "findOrCreateFile" /\ Len(FilterParts(Split(path))) > 0) =>
        LET n == findAndSelectFile(heap, outFiles, path)
        IN  /\ n # Null
            /\ heap.nodes[n].type = "file"
            /\ heap.nodes[n].content = content

\* C9: for every node n reachable from the root of a tree T,
\* findAndSelectFile(T, findPath(T, n)) returns n itself, by identity; in
\* particular two file nodes with identical name and content at different
\* locations each resolve to their own path and back to themselves.  Stated
\* here for the file nodes, which the claim covers (C10 is about the folders).
C9_PathRoundTrip ==
    (op = "findPath" /\ heap.nodes[target].type = "file") =>
        /\ outPath # NullPath
        /\ findAndSelectFile(heap, files, outPath) = target

SlashVariants(p) ==
    { <<Slash>> \o p, p \o <<Slash>> } \cup
    { SubSeq(p, 1, i) \o <<Slash>> \o SubSeq(p, i + 1, Len(p)) :
        i \in { k \in 1..Len(p) : p[k] = Slash } }

\* C11: empty path segments are filtered out before matching in every operation
\* that takes a path: findAndSelectFile, updateFileByPath and findOrCreateFile
\* give, for p with a leading, a trailing or a doubled slash, the same result as
\* for p (the same node or null, the same resulting tree by value).
C11_EmptySegmentsIgnored ==
    /\ op = "findAndSelectFile" =>
          \A q \in SlashVariants(path) : findAndSelectFile(heap, files, q) = outNode
    /\ op = "findOrCreateFile" =>
          \A q \in SlashVariants(path) :
              LET f == findOrCreateFile(heap0, files, q, content)
              IN  ToValue(f.h, f.r) = ToValue(heap, outFiles)
    /\ op = "updateFileByPath" =>
          \A q \in SlashVariants(path) :
              LET u == updateFileByPath(heap0, files, q, content)
              IN  /\ (u.found = Null) <=> (outNode = Null)
                  /\ ToValue(u.h, u.r) = ToValue(heap, outFiles)

----------------------------------------------------------------------------
(* The application: the component state, the Gemini service and the        *)
(* handlers of the App component.  A name is one token here ("README.md"), *)
(* a path a sequence of names and slashes.                                 *)

MaxRuns == 1         \* the runs started in one behaviour
MaxChanges == 1      \* the task changes, editor changes and commits in one behaviour

Tasks == { <<" ">>, <<"t">> }
Tabs == {"explorer", "editor", "preview"}
NewContents == {"edited"}      \* what the user types into the editor

INITIAL_FILE_STRUCTURE ==
    << FileNode(<<"src">>, "folder", NoContent,
           << FileNode(<<"components">>, "folder", NoContent, <<>>),
              FileNode(<<"App.tsx">>, "file", "app", <<>>),
              FileNode(<<"index.tsx">>, "file", "index", <<>>) >>),
       FileNode(<<"package.json">>, "file", "package", <<>>),
       FileNode(<<"README.md">>, "file", "readme", <<>>) >>

ReadmePath == <<"README.md">>
ErrorPath == <<"src", Slash, "components", Slash, "Error.tsx">>

RECURSIVE TrimStart(_)
TrimStart(s) == IF s # <<>> /\ Head(s) = " " THEN TrimStart(Tail(s)) ELSE s

RECURSIVE TrimEnd(_)
TrimEnd(s) == IF s # <<>> /\ s[Len(s)] = " " THEN TrimEnd(SubSeq(s, 1, Len(s) - 1)) ELSE s

\* String.prototype.trim
Trim(s) == TrimEnd(TrimStart(s))

\* addLog(type, message, agentRole): the entry is appended to the feed; arg is
\* the part of the message that is interpolated
addLog(ls, type, message, arg, agentRole) ==
    Append(ls, [type |-> type, message |-> message, arg |-> arg, agentRole |-> agentRole])

NoRole == "undefined"

updateAgentStatus(ag, role, status) == [ag EXCEPT ![role] = status]

----------------------------------------------------------------------------
(* geminiService: what each function returns for a reply of the model.  A  *)
(* reply is "requestError" (the request throws, or the text is not JSON)   *)
(* or the parsed JSON text.                                                *)

DefaultPlan ==
    << "Analyze requirements", "Implement feature", "Write tests", "Update documentation" >>

PlanReplies ==
    { [kind |-> "json", hasSubtasks |-> TRUE, isArray |-> TRUE, subtasks |-> <<"Create component">>],
      [kind |-> "json", hasSubtasks |-> FALSE, isArray |-> FALSE, subtasks |-> <<>>],
      [kind |-> "json", hasSubtasks |-> TRUE, isArray |-> FALSE, subtasks |-> <<>>],
      [kind |-> "requestError", hasSubtasks |-> FALSE, isArray |-> FALSE, subtasks |-> <<>>] }

\* generatePlan: jsonResponse.subtasks || ["Error: Could not generate plan."],
\* and the default plan when the request fails
generatePlan(reply) ==
    IF reply.kind = "requestError" THEN [isArray |-> TRUE, items |-> DefaultPlan]
    ELSE IF ~reply.hasSubtasks
         THEN [isArray |-> TRUE, items |-> <<"Error: Could not generate plan.">>]
         ELSE [isArray |-> reply.isArray, items |-> reply.subtasks]

CodePaths ==
    { <<"src", Slash, "components", Slash, "Login.tsx">>, ReadmePath, <<"src">> }

CodeReplies ==
    { [kind |-> "json", hasFileName |-> TRUE, fileName |-> p, code |-> "code"] : p \in CodePaths }
    \cup { [kind |-> "json", hasFileName |-> FALSE, fileName |-> EmptyString, code |-> "code"],
           [kind |-> "requestError", hasFileName |-> FALSE, fileName |-> EmptyString, code |-> ""] }

\* mutant: a failed request is passed on as it is, without the placeholder
generateCodeNoFallback(reply) ==
    [hasFileName |-> reply.hasFileName, fileName |-> reply.fileName, code |-> reply.code]

\* generateCode: JSON.parse(response.text) as it is, and the Error.tsx
\* placeholder when the request fails
generateCode(reply) ==
    IF reply.kind = "requestError"
    THEN [hasFileName |-> TRUE, fileName |-> ErrorPath, code |-> "// Failed to generate code"]
    ELSE [hasFileName |-> reply.hasFileName, fileName |-> reply.fileName, code |-> reply.code]

\* fileName.replace('.tsx', '.test.tsx') on one name
ReplaceTsx(name) ==
    CASE name = "Login.tsx" -> "Login.test.tsx"
      [] name = "Error.tsx" -> "Error.test.tsx"
      [] name = "App.tsx" -> "App.test.tsx"
      [] name = "index.tsx" -> "index.test.tsx"
      [] OTHER -> name

\* the first occurrence of '.tsx' in these paths is in the last name
TestPathOf(fileName) == [i \in 1..Len(fileName) |->
                            IF i = Len(fileName) THEN ReplaceTsx(fileName[i]) ELSE fileName[i]]

TestReplies(fileName) ==
    { [kind |-> "json", hasTestFileName |-> TRUE, testFileName |-> p, testCode |-> "test"]
        : p \in {TestPathOf(fileName), fileName} }
    \cup { [kind |-> "json", hasTestFileName |-> FALSE, testFileName |-> EmptyString, testCode |-> "test"],
           [kind |-> "requestError", hasTestFileName |-> FALSE, testFileName |-> EmptyString, testCode |-> ""] }

\* generateTests: JSON.parse(response.text) as it is, and a placeholder test
\* file when the request fails
generateTests(reply, fileName) ==
    IF reply.kind = "requestError"
    THEN [hasTestFileName |-> TRUE, testFileName |-> TestPathOf(fileName),
          testCode |-> "// Failed to generate tests"]
    ELSE [hasTestFileName |-> reply.hasTestFileName, testFileName |-> reply.testFileName,
          testCode |-> reply.testCode]

DocReplies == {"text", "requestError"}

\* `${readmeContent}\n\n---\n\n## Update Failed\n...`: the README given, with
\* the section appended (a README that has the section already keeps one name
\* in the model)
UpdateFailed(readmeContent) ==
    CASE readmeContent = "" -> "## Update Failed"
      [] readmeContent = "readme" -> "readme ## Update Failed"
      [] readmeContent = "doc" -> "doc ## Update Failed"
      [] readmeContent = "edited" -> "edited ## Update Failed"
      [] readmeContent = "code" -> "code ## Update Failed"
      [] readmeContent = "test" -> "test ## Update Failed"
      [] OTHER -> "... ## Update Failed ## Update Failed"

HasUpdateFailed(c) == c \in { UpdateFailed(r) : r \in {"", "readme", "doc", "edited", "code", "test", "..."} }

\* generateDocumentation: response.text, and the README with an
\* 'Update Failed' section when the request fails
generateDocumentation(reply, readmeContent) ==
    IF reply = "requestError" THEN UpdateFailed(readmeContent) ELSE "doc"

----------------------------------------------------------------------------
(* handleStartTask: one action for the call up to its first await, and one *)
(* for each continuation after an await                                    *)

Changes == count.tasks + count.edits + count.commits

treeScratch == <<heap0, op, path, content, target, outFiles, outNode, outPath>>

\* the local variables of a handler that is waiting for a call: the files and
\* task of the render it was created in, and the locals of handleStartTask
Activation(f, t) ==
    [files |-> f, task |-> t, filePath |-> EmptyString, code |-> "",
     testFileName |-> EmptyString, updatedFiles |-> Null]

\* a call of the service in flight and the handler that awaits it
Call(fn, handler, arg, k) == [fn |-> fn, handler |-> handler, arg |-> arg, locals |-> k]

Event(ev, fn, outcome, p, from, to) ==
    [ev |-> ev, fn |-> fn, outcome |-> outcome, path |-> p, from |-> from, to |-> to]

Called(fn) == Event("call", fn, "", EmptyString, Null, Null)
Returned(fn, outcome) == Event("return", fn, outcome, EmptyString, Null, Null)
ReturnedPath(fn, outcome, p) == Event("return", fn, outcome, p, Null, Null)
Stored(p, from, to) == Event("store", "findOrCreateFile", "", p, from, to)

Remove(q, i) == SubSeq(q, 1, i - 1) \o SubSeq(q, i + 1, Len(q))

\* mutant: the next call is issued while the one awaited stays in flight
IssueBeside(q, i, call) == Append(q, call)

\* the handler at position i goes on to await its next call
Await(q, i, call) == [q EXCEPT ![i] = call]

\* mutant: the guard tests the task only
StartRejectedIfBlank(t, running) == ~Truthy(Trim(t))

\* if (!task.trim() || isRunning) return
StartRejected(t, running) == ~Truthy(Trim(t)) \/ running

\* plan[0] || task
Subtask(plan, t) == IF plan.items # <<>> /\ plan.items[1] # "" THEN plan.items[1] ELSE t

\* files.map(f => f.name)
TopNames(h, arr) == [i \in 1..Len(h.arrays[arr]) |-> At(h, arr, i).name]

\* readme?.content || '' for readme = files.find(f => f.name === 'README.md')
ReadmeContent(h, arr) ==
    LET readme == Find(h, arr, { i \in Indices(h, arr) : At(h, arr, i).name = ReadmePath })
    IN  IF readme = Null \/ h.nodes[readme].content = NoContent THEN ""
        ELSE h.nodes[readme].content

\* mutant: a stage works on the tree the run started with
CapturedTree(k) == k.files

\* the tree a later stage works on: the local updatedFiles
PreviousTree(k) == k.updatedFiles

\* (a request during a run is always tried; between runs, MaxRuns times)
HandleStartTask ==
    /\ isRunning \/ count.runs < MaxRuns
    /\ IF StartRejected(task, isRunning)
       THEN /\ startOutcome' = "rejected"
            /\ UNCHANGED <<isRunning, logs, agents, pending, count, trace>>
       ELSE /\ startOutcome' = "accepted"
            /\ isRunning' = TRUE
            /\ logs' = addLog(addLog(<<>>, "UserAction", "Task started", task, NoRole),
                              "AgentMessage", "Decomposing task...", EmptyString, "Planner")
            /\ agents' = updateAgentStatus(agents, "Planner", "Thinking")
            /\ pending' = Append(pending, Call("generatePlan", "handleStartTask", <<task>>,
                                               Activation(files, task)))
            /\ count' = [count EXCEPT !.runs = @ + 1]
            /\ trace' = <<Called("generatePlan")>>
    /\ UNCHANGED <<heap, files, task, selectedFile, activeTab>>
    /\ UNCHANGED treeScratch

\* what the trace says of a reply: the request failed, the JSON text lacks what
\* the caller reads, or neither
PlanOutcome(reply) ==
    IF reply.kind = "requestError" THEN "requestError"
    ELSE IF reply.hasSubtasks /\ reply.isArray THEN "ok" ELSE "malformed"

ReplyOutcome(reply, wellFormed) ==
    IF reply.kind = "requestError" THEN "requestError"
    ELSE IF wellFormed THEN "ok" ELSE "malformed"

\* catch (error): the Error entry, and the speech call awaited before finally
Catch(i, fn, outcome) ==
    /\ logs' = addLog(logs, "Error", "Workflow failed", EmptyString, NoRole)
    /\ pending' = Await(pending, i, Call("generateSpeech", "handleStartTask",
                                         <<"An error occurred.">>, pending[i].locals))
    /\ trace' = trace \o <<Returned(fn, outcome), Called("generateSpeech")>>

\* const plan = await gemini.generatePlan(task), up to await gemini.generateCode
PlanReturns(i, reply) ==
    /\ pending[i].handler = "handleStartTask"
    /\ pending[i].fn = "generatePlan"
    /\ LET k == pending[i].locals
           plan == generatePlan(reply)
       IN  IF ~plan.isArray
           THEN \* plan.join is not a function
                /\ Catch(i, "generatePlan", PlanOutcome(reply))
                /\ UNCHANGED agents
           ELSE /\ logs' = addLog(addLog(logs, "Info", "Plan created", plan.items, NoRole),
                                  "AgentMessage", "Beginning code generation...", EmptyString, "Coder")
                /\ agents' = updateAgentStatus(updateAgentStatus(agents, "Planner", "Done"),
                                               "Coder", "Coding")
                /\ pending' = Await(pending, i,
                                    Call("generateCode", "handleStartTask",
                                         <<Subtask(plan, k.task), TopNames(heap, k.files)>>, k))
                /\ trace' = trace \o
                       << Returned("generatePlan", PlanOutcome(reply)),
                          Called("generateCode") >>
    /\ count' = [count EXCEPT !.returns = @ + 1]
    /\ UNCHANGED <<heap, files, task, isRunning, selectedFile, activeTab, startOutcome>>
    /\ UNCHANGED treeScratch

\* const {fileName: filePath, code} = await gemini.generateCode(...), up to
\* await gemini.generateTests
CodeReturns(i, reply) ==
    /\ pending[i].handler = "handleStartTask"
    /\ pending[i].fn = "generateCode"
    /\ LET k == pending[i].locals
           r == generateCode(reply)
       IN  IF ~r.hasFileName
           THEN \* filePath is undefined: path.split throws in findOrCreateFile
                /\ Catch(i, "generateCode", ReplyOutcome(reply, r.hasFileName))
                /\ UNCHANGED <<heap, files, agents>>
           ELSE LET f == findOrCreateFile(heap, k.files, r.fileName, r.code)
                IN  /\ heap' = f.h
                    /\ files' = f.r
                    /\ logs' = addLog(addLog(logs, "FileChange", "Generated file", r.fileName, "Coder"),
                                      "AgentMessage", "Generating tests for", r.fileName, "Tester")
                    /\ agents' = updateAgentStatus(updateAgentStatus(agents, "Coder", "Done"),
                                                   "Tester", "Testing")
                    /\ pending' = Await(pending, i,
                                        Call("generateTests", "handleStartTask",
                                             <<r.fileName, r.code>>,
                                             [k EXCEPT !.filePath = r.fileName, !.code = r.code,
                                                       !.updatedFiles = f.r]))
                    /\ trace' = trace \o
                           << ReturnedPath("generateCode", ReplyOutcome(reply, r.hasFileName),
                                           r.fileName),
                              Stored(r.fileName, k.files, f.r),
                              Called("generateTests") >>
    /\ count' = [count EXCEPT !.returns = @ + 1]
    /\ UNCHANGED <<task, isRunning, selectedFile, activeTab, startOutcome>>
    /\ UNCHANGED treeScratch

\* const {testFileName, testCode} = await gemini.generateTests(filePath, code),
\* up to await gemini.generateDocumentation
TestsReturn(i, reply) ==
    /\ pending[i].handler = "handleStartTask"
    /\ pending[i].fn = "generateTests"
    /\ LET k == pending[i].locals
           r == generateTests(reply, k.filePath)
       IN  IF ~r.hasTestFileName
           THEN \* testFileName is undefined: path.split throws in findOrCreateFile
                /\ Catch(i, "generateTests", ReplyOutcome(reply, r.hasTestFileName))
                /\ UNCHANGED <<heap, files, agents>>
           ELSE LET f == findOrCreateFile(heap, PreviousTree(k), r.testFileName, r.testCode)
                    readmeContent == ReadmeContent(heap', k.files)
                IN  /\ heap' = f.h
                    /\ files' = f.r
                    /\ logs' = addLog(addLog(addLog(logs,
                                   "FileChange", "Generated test file", r.testFileName, "Tester"),
                                   "Info", "Tests passed and code clean.", EmptyString, "Tester"),
                                   "AgentMessage", "Updating documentation.", EmptyString, "Documenter")
                    /\ agents' = updateAgentStatus(updateAgentStatus(agents, "Tester", "Done"),
                                                   "Documenter", "Documenting")
                    /\ pending' = Await(pending, i,
                                        Call("generateDocumentation", "handleStartTask",
                                             <<k.task, readmeContent, k.filePath, r.testFileName>>,
                                             [k EXCEPT !.testFileName = r.testFileName,
                                                       !.updatedFiles = f.r]))
                    /\ trace' = trace \o
                           << ReturnedPath("generateTests", ReplyOutcome(reply, r.hasTestFileName),
                                           r.testFileName),
                              Stored(r.testFileName, PreviousTree(k), f.r),
                              Called("generateDocumentation") >>
    /\ count' = [count EXCEPT !.returns = @ + 1]
    /\ UNCHANGED <<task, isRunning, selectedFile, activeTab, startOutcome>>
    /\ UNCHANGED treeScratch

\* const updatedReadme = await gemini.generateDocumentation(...), up to
\* await gemini.generateSpeech
DocsReturn(i, reply) ==
    /\ pending[i].handler = "handleStartTask"
    /\ pending[i].fn = "generateDocumentation"
    /\ LET k == pending[i].locals
           updatedReadme == generateDocumentation(reply, pending[i].arg[2])
           f == findOrCreateFile(heap, PreviousTree(k), ReadmePath, updatedReadme)
           mainComponentFile == findAndSelectFile(heap', files', k.filePath)
       IN  /\ heap' = f.h
           /\ files' = f.r
           /\ logs' = addLog(addLog(logs, "FileChange", "Updated README.md", EmptyString, "Documenter"),
                             "Success", "Automated task completed.", EmptyString, NoRole)
           /\ agents' = updateAgentStatus(agents, "Documenter", "Done")
           /\ IF mainComponentFile # Null
              THEN selectedFile' = mainComponentFile /\ activeTab' = "preview"
              ELSE UNCHANGED <<selectedFile, activeTab>>
           /\ pending' = Await(pending, i,
                               Call("generateSpeech", "handleStartTask", <<"Task completed.">>,
                                    [k EXCEPT !.updatedFiles = f.r]))
           /\ trace' = trace \o
                  << Returned("generateDocumentation", IF reply = "requestError"
                                                        THEN "requestError" ELSE "ok"),
                     Stored(ReadmePath, PreviousTree(k), f.r),
                     Called("generateSpeech") >>
    /\ count' = [count EXCEPT !.returns = @ + 1]
    /\ UNCHANGED <<task, isRunning, startOutcome>>
    /\ UNCHANGED treeScratch

\* mutant: the finally block leaves the flag as it is
FinallySkipped(running) == running

\* finally { setIsRunning(false) }
Finally(running) == FALSE

\* playAudio(await gemini.generateSpeech(...)) of the try or the catch block,
\* and the finally block
RunSpeechReturns(i) ==
    /\ pending[i].handler = "handleStartTask"
    /\ pending[i].fn = "generateSpeech"
    /\ isRunning' = Finally(isRunning)
    /\ pending' = Remove(pending, i)
    /\ trace' = Append(trace, Returned("generateSpeech", "ok"))
    /\ count' = [count EXCEPT !.returns = @ + 1]
    /\ UNCHANGED <<heap, files, task, logs, agents, selectedFile, activeTab, startOutcome>>
    /\ UNCHANGED treeScratch

----------------------------------------------------------------------------
(* The handlers of the user's actions.  A handler without a guard of its   *)
(* own is enabled where the element that calls it is rendered and enabled. *)

\* onChange of the task textarea, which is disabled during a run
SetTask(t) ==
    /\ ~isRunning
    /\ Changes < MaxChanges
    /\ count' = [count EXCEPT !.tasks = @ + 1]
    /\ task' = t
    /\ UNCHANGED <<heap, files, isRunning, logs, agents, selectedFile, activeTab, pending,
                   startOutcome, trace>>
    /\ UNCHANGED treeScratch

\* onClick of a TabButton
SetActiveTab(t) ==
    /\ activeTab' = t
    /\ UNCHANGED <<heap, files, task, isRunning, logs, agents, selectedFile, pending,
                   startOutcome, count, trace>>
    /\ UNCHANGED treeScratch

\* handleFileSelect(file), called by the FileBrowser of the explorer tab
HandleFileSelect(n) ==
    /\ activeTab = "explorer"
    /\ n \in NodesOf(heap, files)
    /\ IF heap.nodes[n].type = "file"
       THEN selectedFile' = n /\ activeTab' = "editor"
       ELSE UNCHANGED <<selectedFile, activeTab>>
    /\ UNCHANGED <<heap, files, task, isRunning, logs, agents, pending, startOutcome, count, trace>>
    /\ UNCHANGED treeScratch

\* mutant: the textarea of the editor is never read-only
EditorNeverReadOnly(running) == FALSE

\* readOnly={isReadOnly} of the textarea, with isReadOnly={isRunning}
EditorReadOnly(running) == running

\* handleFileContentChange(newContent), called by the textarea of the editor
\* tab, which is read-only during a run
HandleFileContentChange(newContent) ==
    /\ activeTab = "editor"
    /\ ~EditorReadOnly(isRunning)
    /\ Changes < MaxChanges
    /\ count' = [count EXCEPT !.edits = @ + 1]
    /\ IF selectedFile = Null
       THEN UNCHANGED <<heap, files, selectedFile>>
       ELSE LET filePath == findPath(heap, files, selectedFile, EmptyString, 1)
            IN  IF FoundPath(filePath)
                THEN LET u == updateFileByPath(heap, files, filePath, newContent)
                     IN  /\ heap' = u.h
                         /\ files' = u.r
                         /\ selectedFile' = IF u.found # Null THEN u.found ELSE selectedFile
                ELSE UNCHANGED <<heap, files, selectedFile>>
    /\ UNCHANGED <<task, isRunning, logs, agents, activeTab, pending, startOutcome, trace>>
    /\ UNCHANGED treeScratch

\* handleCommit, up to await gemini.generateSpeech; the button is disabled
\* during a run
HandleCommit ==
    /\ ~isRunning
    /\ Changes < MaxChanges
    /\ count' = [count EXCEPT !.commits = @ + 1]
    /\ logs' = addLog(addLog(logs, "Commit", "User approved & committed changes", task, NoRole),
                      "Success", "Project successfully committed!", EmptyString, NoRole)
    /\ pending' = Append(pending, Call("generateSpeech", "handleCommit", <<"Changes committed.">>,
                                       Activation(files, task)))
    /\ UNCHANGED <<heap, files, task, isRunning, agents, selectedFile, activeTab, startOutcome, trace>>
    /\ UNCHANGED treeScratch

\* the rest of handleCommit: every agent of the project is set to Idle
CommitSpeechReturns(i) ==
    /\ pending[i].handler = "handleCommit"
    /\ agents' = [r \in Roles |-> "Idle"]
    /\ pending' = Remove(pending, i)
    /\ count' = [count EXCEPT !.returns = @ + 1]
    /\ UNCHANGED <<heap, files, task, isRunning, logs, selectedFile, activeTab, startOutcome,
                   trace>>
    /\ UNCHANGED treeScratch

Init ==
    LET a == AllocArray(EmptyHeap, INITIAL_FILE_STRUCTURE)
    IN  /\ heap = a.h
        /\ heap0 = a.h
        /\ files = a.r
        /\ op = "idle"
        /\ path = EmptyString
        /\ content = NoContent
        /\ target = Null
        /\ outFiles = Null
        /\ outNode = Null
        /\ outPath = NullPath
        /\ UseState

Next ==
    \/ HandleStartTask
    \/ \E i \in DOMAIN pending, reply \in PlanReplies : PlanReturns(i, reply)
    \/ \E i \in DOMAIN pending, reply \in CodeReplies : CodeReturns(i, reply)
    \/ \E i \in DOMAIN pending :
          \E reply \in TestReplies(pending[i].locals.filePath) : TestsReturn(i, reply)
    \/ \E i \in DOMAIN pending, reply \in DocReplies : DocsReturn(i, reply)
    \/ \E i \in DOMAIN pending : RunSpeechReturns(i)
    \/ \E t \in Tasks : SetTask(t)
    \/ \E t \in Tabs : SetActiveTab(t)
    \/ \E n \in NodesOf(heap, files) : HandleFileSelect(n)
    \/ \E c \in NewContents : HandleFileContentChange(c)
    \/ HandleCommit
    \/ \E i \in DOMAIN pending : CommitSpeechReturns(i)

Spec == Init /\ [][Next]_vars

\* a call in flight returns or fails and the handler that awaits it is resumed:
\* the steps that count a return (PlanReturns, CodeReturns, TestsReturn,
\* DocsReturn, RunSpeechReturns, CommitSpeechReturns), enabled whenever a call
\* is in flight
SomeCallReturns ==
    /\ pending # <<>>
    /\ count' = [count EXCEPT !.returns = @ + 1]

\* while calls are in flight, one of them returns or fails in the end
FairSpec == Spec /\ WF_count(SomeCallReturns)

----------------------------------------------------------------------------
(* The claims about the run *)

\* the activations of handleStartTask that have not finished
RunsInProgress == { i \in DOMAIN pending : pending[i].handler = "handleStartTask" }

\* C12: a start request while a run is in progress is a no-op: at most one run
\* is in progress at any time, and the rejected request changes neither the
\* logs, the tree nor the agent statuses, and is not queued (no call is issued,
\* no run is counted, the run flag stays).
C12_StartWhileRunningIsNoOp ==
    /\ [](Cardinality(RunsInProgress) <= 1)
    /\ [][ (isRunning /\ HandleStartTask) =>
              UNCHANGED <<heap, files, logs, agents, pending, isRunning, selectedFile,
                          activeTab, count, trace>> ]_vars

C12_Witness == isRunning /\ startOutcome = "rejected" /\ Cardinality(RunsInProgress) = 1

GenerationCalls ==
    <<"generatePlan", "generateCode", "generateTests", "generateDocumentation">>

IsGeneration(fn) == \E j \in DOMAIN GenerationCalls : GenerationCalls[j] = fn

InFlight == { i \in DOMAIN pending : IsGeneration(pending[i].fn) }

IsGenerationEvent(e) == e.ev \in {"call", "return"} /\ IsGeneration(e.fn)

\* the calls and returns of the generation functions in the latest run, in order
GenerationEvents == SelectSeq(trace, IsGenerationEvent)

\* C13: the four generation calls of a run are strictly sequential, in the order
\* plan, code, tests, documentation: a call is issued only after the one before
\* it has returned, and at most one of them is in flight at any time.
C13_CallsSequential ==
    /\ Cardinality(InFlight) <= 1
    /\ Len(GenerationEvents) <= 2 * Len(GenerationCalls)
    /\ \A j \in DOMAIN GenerationEvents :
          /\ GenerationEvents[j].ev = (IF j % 2 = 1 THEN "call" ELSE "return")
          /\ GenerationEvents[j].fn = GenerationCalls[(j + 1) \div 2]

C13_Witness ==
    /\ \E i \in InFlight : pending[i].fn = "generateDocumentation"
    /\ Len(GenerationEvents) = 7

IsStore(e) == e.ev = "store"

\* the applications of findOrCreateFile in the latest run, in order
Stores == SelectSeq(trace, IsStore)

HasReturned(fn) == \E j \in DOMAIN trace : trace[j].ev = "return" /\ trace[j].fn = fn

\* the path that fn returned in the latest run
PathReturned(fn) ==
    trace[CHOOSE j \in DOMAIN trace : trace[j].ev = "return" /\ trace[j].fn = fn].path

\* the strings of every plan that generatePlan can return
PlanItems == UNION { { generatePlan(reply).items[j] : j \in DOMAIN generatePlan(reply).items }
                     : reply \in PlanReplies }

\* C14: in a run that executes all its stages, findOrCreateFile is applied
\* exactly three times, to the component path, the test path and "README.md" in
\* this order, each application taking the tree the one before it returned; the
\* plan is never stored in the tree.
C14_ThreeStoresInOrder ==
    /\ Len(Stores) <= 3
    /\ \A j \in 2..Len(Stores) : Stores[j].from = Stores[j - 1].to
    /\ Len(Stores) >= 1 => Stores[1].path = PathReturned("generateCode")
    /\ Len(Stores) >= 2 => Stores[2].path = PathReturned("generateTests")
    /\ Len(Stores) >= 3 => Stores[3].path = ReadmePath
    /\ HasReturned("generateDocumentation") => Len(Stores) = 3
    /\ \A n \in NodesOf(heap, files) : heap.nodes[n].content \notin PlanItems

C14_Witness == ~isRunning /\ HasReturned("generateDocumentation") /\ Len(Stores) = 3

\* the tree a run in progress works from: the one it was started with, then
\* the one its latest stage produced
WorkingTree(k) == IF k.updatedFiles = Null THEN k.files ELSE k.updatedFiles

\* C15: the tree is never worked on by more than one logical operation at a
\* time: during a run the current tree is the tree the run works from (no user
\* edit has replaced it, so no accepted edit is overwritten by a run that works
\* from an older snapshot), and the first stage of the run starts from the tree
\* the run was started with.
C15_RunWorksOnCurrentTree ==
    \A i \in RunsInProgress :
        LET k == pending[i].locals
        IN  /\ files = WorkingTree(k)
            /\ Len(Stores) >= 1 => Stores[1].from = k.files

C15_Witness ==
    /\ isRunning
    /\ count.edits = 1
    /\ Len(Stores) >= 2
    /\ \E n \in NodesOf(heap, files) : heap.nodes[n].content = "edited"

\* the outcome of the call of fn in the latest run
OutcomeOf(fn) ==
    trace[CHOOSE j \in DOMAIN trace : trace[j].ev = "return" /\ trace[j].fn = fn].outcome

Failed(fn) == HasReturned(fn) /\ OutcomeOf(fn) = "requestError"

\* the call that follows the return of fn in a run that goes on
NextStage(fn) ==
    CASE fn = "generatePlan" -> "generateCode"
      [] fn = "generateCode" -> "generateTests"
      [] fn = "generateTests" -> "generateDocumentation"
      [] fn = "generateDocumentation" -> "generateSpeech"

HasLog(type, message) ==
    \E j \in DOMAIN logs : logs[j].type = type /\ logs[j].message = message

RECURSIVE HoldsFile(_, _, _)
\* tree level has, under a chain of folders named by the parts before the last,
\* a file named by the last part with a content of cs
HoldsFile(level, parts, cs) ==
    \E i \in Indices(heap, level) :
        LET node == At(heap, level, i)
        IN  /\ node.name = Head(parts)
            /\ IF Len(parts) = 1 THEN node.type = "file" /\ node.content \in cs
               ELSE /\ node.type = "folder"
                    /\ HoldsFile(node.children, Tail(parts), cs)

FallbackReadmes == { c \in { heap.nodes[n].content : n \in 1..Len(heap.nodes) } : HasUpdateFailed(c) }

\* C16: when a generation call fails, its fixed fallback is substituted (the
\* default four-step plan, the Error.tsx placeholder, a placeholder test file,
\* the README with an 'Update Failed' section) and the run does not abort: the
\* next stage is started at once, and a run whose calls have all returned a
\* well-formed response or failed ends with its success entry in the log feed.
C16_FailedCallFallsBack ==
    /\ \A j \in DOMAIN trace :
          (trace[j].ev = "return" /\ IsGeneration(trace[j].fn) /\ trace[j].outcome = "requestError")
          => \E c \in (j + 1)..Len(trace) :
                 /\ trace[c] = Called(NextStage(trace[j].fn))
                 /\ \A m \in (j + 1)..(c - 1) : trace[m].ev = "store"
    /\ Failed("generatePlan") =>
          \E j \in DOMAIN logs : logs[j].message = "Plan created" /\ logs[j].arg = DefaultPlan
    /\ Failed("generateCode") =>
          /\ Stores[1].path = ErrorPath
          /\ HoldsFile(Stores[1].to, FilterParts(Split(ErrorPath)), {"// Failed to generate code"})
    /\ Failed("generateTests") =>
          /\ Stores[2].path = TestPathOf(Stores[1].path)
          /\ HoldsFile(Stores[2].to, FilterParts(Split(Stores[2].path)),
                       {"// Failed to generate tests"})
    /\ Failed("generateDocumentation") =>
          HoldsFile(Stores[3].to, FilterParts(Split(ReadmePath)), FallbackReadmes)
    /\ ( /\ ~isRunning
         /\ trace # <<>>
         /\ \A j \in DOMAIN trace : trace[j].outcome # "malformed" )
       => /\ HasLog("Success", "Automated task completed.")
          /\ ~HasLog("Error", "Workflow failed")

C16_Witness ==
    /\ ~isRunning
    /\ \A j \in DOMAIN GenerationCalls : Failed(GenerationCalls[j])
    /\ HasLog("Success", "Automated task completed.")

Malformed(fn) == HasReturned(fn) /\ OutcomeOf(fn) = "malformed"

\* C17: a malformed structured response (a code response without fileName, a
\* test response without testFileName, a plan whose subtasks is absent or not a
\* list) is recovered exactly like a call failure: the same fallback is
\* substituted, the next stage is started, and the run ends with its success
\* entry and without an error entry.
C17_MalformedRecoveredLikeFailure ==
    /\ \A j \in DOMAIN trace :
          (trace[j].ev = "return" /\ trace[j].outcome = "malformed")
          => \E c \in (j + 1)..Len(trace) :
                 /\ trace[c] = Called(NextStage(trace[j].fn))
                 /\ \A m \in (j + 1)..(c - 1) : trace[m].ev = "store"
    /\ Malformed("generatePlan") =>
          \E j \in DOMAIN logs : logs[j].message = "Plan created" /\ logs[j].arg = DefaultPlan
    /\ Malformed("generateCode") =>
          /\ Len(Stores) >= 1
          /\ Stores[1].path = ErrorPath
          /\ HoldsFile(Stores[1].to, FilterParts(Split(ErrorPath)), {"// Failed to generate code"})
    /\ Malformed("generateTests") =>
          /\ Len(Stores) >= 2
          /\ Stores[2].path = TestPathOf(Stores[1].path)
          /\ HoldsFile(Stores[2].to, FilterParts(Split(Stores[2].path)),
                       {"// Failed to generate tests"})
    /\ (~isRunning /\ trace # <<>>)
       => /\ HasLog("Success", "Automated task completed.")
          /\ ~HasLog("Error", "Workflow failed")

\* C18: every started run eventually reaches completion, given that every
\* external call eventually returns or fails: the run flag is cleared in the end,
\* and a start request is then accepted again.
C18_RunCompletes ==
    isRunning ~> (~isRunning /\ ~StartRejected(InitialTask, isRunning))

C18_Witness ==
    /\ ~isRunning
    /\ count.runs = 1
    /\ trace # <<>>
    /\ trace[Len(trace)] = Returned("generateSpeech", "ok")
    /\ HasLog("Error", "Workflow failed")

\* C19: every failure of an external generation call is recorded as a
\* user-visible log line: when the run has ended, the log feed holds an entry
\* that reports a failure (an entry of type Error, whatever its text) if the
\* call of some stage failed or was replaced by its fallback.
C19_FailuresLogged ==
    (~isRunning /\ trace # <<>>) =>
        \A j \in DOMAIN trace :
            (trace[j].ev = "return" /\ IsGeneration(trace[j].fn) /\ trace[j].outcome # "ok")
            => \E l \in DOMAIN logs : logs[l].type = "Error"

\* C20: sibling names are unique within every folder and at the top level of
\* every reachable tree: after any sequence of findOrCreateFile calls and user
\* edits from the initial structure, no two siblings (of any type) share a name.
C20_SiblingNamesUnique ==
    \A a \in ArraysOf(heap, files) :
        \A i, j \in Indices(heap, a) :
            i # j => At(heap, a, i).name # At(heap, a, j).name

----------------------------------------------------------------------------
(* The claims about the tree, the agents and the selection of the          *)
(* application                                                             *)

RECURSIVE PathTypes(_, _, _)
\* every path of names that leads to a node of the tree arr, with the node's type
PathTypes(h, arr, prefix) ==
    UNION { LET node == At(h, arr, i)
                here == Append(prefix, node.name)
            IN  {<<here, node.type>>} \cup
                (IF node.children = Null THEN {} ELSE PathTypes(h, node.children, here))
          : i \in Indices(h, arr) }

\* the steps of a run that call findOrCreateFile
RunStores ==
    \E i \in DOMAIN pending :
        \/ \E reply \in CodeReplies : CodeReturns(i, reply)
        \/ \E reply \in TestReplies(pending[i].locals.filePath) : TestsReturn(i, reply)
        \/ \E reply \in DocReplies : DocsReturn(i, reply)

\* C21: no operation deletes from the tree: in every step (of a run, an edit, a
\* file selection, a commit) every path that leads to a file or folder still
\* leads to a node of the same type afterwards, and the tree changes only in a
\* user edit or in a step of a run that calls findOrCreateFile.
C21_NothingDeleted ==
    [][ /\ PathTypes(heap, files, <<>>) \subseteq PathTypes(heap', files', <<>>)
        /\ ToValue(heap', files') # ToValue(heap, files)
             => \/ \E c \in NewContents : HandleFileContentChange(c)
                \/ RunStores ]_vars

C21_Witness ==
    /\ ~isRunning
    /\ count.edits = 1
    /\ Len(Stores) = 3
    /\ Cardinality(PathTypes(heap, files, <<>>)) > NodeCount(INITIAL_FILE_STRUCTURE)

\* the agent of a stage and the status it shows while the stage works
StageRole(fn) ==
    CASE fn = "generatePlan" -> "Planner"
      [] fn = "generateCode" -> "Coder"
      [] fn = "generateTests" -> "Tester"
      [] OTHER -> "Documenter"

StageStatus(fn) ==
    CASE fn = "generatePlan" -> "Thinking"
      [] fn = "generateCode" -> "Coding"
      [] fn = "generateTests" -> "Testing"
      [] OTHER -> "Documenting"

\* C22: while a run awaits the external call of a stage, the agent of that stage
\* shows its in-progress status, whatever else happens in between, a commit
\* whose speech call returns during the run included.
C22_StageAgentInProgress ==
    \A i \in RunsInProgress :
        IsGeneration(pending[i].fn)
            => agents[StageRole(pending[i].fn)] = StageStatus(pending[i].fn)

InProgress == {"Thinking", "Coding", "Testing", "Documenting"}

\* C23: whenever no run is in progress, no agent has an in-progress status:
\* every agent is Idle or Done, also after a run that ended in the
\* "Workflow failed" branch.
C23_NoAgentBusyWhenIdle ==
    ~isRunning => \A r \in Roles : agents[r] \notin InProgress /\ agents[r] \in {"Idle", "Done"}

\* C24: whenever no run is in progress and a file is selected, the selected
\* node is, by identity, a node of the current tree, so that findPath locates
\* it and an edit of the selected file reaches the tree; also after runs that
\* abort after having replaced the tree with a deep copy.
C24_SelectedFileInTree ==
    (~isRunning /\ selectedFile # Null)
        => /\ selectedFile \in NodesOf(heap, files)
           /\ FoundPath(findPath(heap, files, selectedFile, EmptyString, 1))

\* the activations of handleStartTask that have executed every stage
RunsWithAllStages ==
    { i \in RunsInProgress :
        pending[i].fn = "generateSpeech" /\ HasReturned("generateDocumentation") }

\* C25: when a run has executed all its stages, the file at the generated
\* component path holds exactly the code returned by the code stage, whatever
\* paths the external calls returned: also a test path equal to the component
\* path, and a component path equal to README.md.
C25_ComponentHoldsCode ==
    \A i \in RunsWithAllStages :
        HoldsFile(files, FilterParts(Split(pending[i].locals.filePath)),
                  {pending[i].locals.code})

\* C26: the README content handed to the documentation call of a run is the
\* content of the top-level README.md of the tree as it stands after the
\* component and the test file of this run have been stored.
C26_ReadmeOfUpdatedTree ==
    \A i \in RunsInProgress :
        pending[i].fn = "generateDocumentation"
            => pending[i].arg[2] = ReadmeContent(heap, pending[i].locals.updatedFiles)

RECURSIVE FileContents(_, _, _)
\* every path of names that leads to a file of the tree arr, with its content
FileContents(h, arr, prefix) ==
    UNION { LET node == At(h, arr, i)
                here == Append(prefix, node.name)
            IN  (IF node.type = "file" THEN {<<here, node.content>>} ELSE {}) \cup
                (IF node.children = Null THEN {} ELSE FileContents(h, node.children, here))
          : i \in Indices(h, arr) }

\* the selected node is a node of the tree
SelectionInTree == selectedFile # Null /\ selectedFile \in NodesOf(heap, files)

\* C27: after a user edit of a selected file that is in the tree, the selected
\* file is kept in sync: the new selected node is the node of the new tree at
\* the path of the old one, it has the new content, and no other file of the
\* tree has changed content.
C27_EditKeepsSelectionInSync ==
    [][ \A c \in NewContents :
          (SelectionInTree /\ HandleFileContentChange(c))
          => LET filePath == findPath(heap, files, selectedFile, EmptyString, 1)
                 parts == Split(filePath)
                 before == FileContents(heap, files, <<>>)
                 after == FileContents(heap', files', <<>>)
             IN  /\ selectedFile' \in NodesOf(heap', files')
                 /\ findPath(heap', files', selectedFile', EmptyString, 1) = filePath
                 /\ heap'.nodes[selectedFile'].type = "file"
                 /\ heap'.nodes[selectedFile'].content = c
                 /\ <<parts, c>> \in after
                 /\ { e \in after : e[1] # parts } = { e \in before : e[1] # parts }
                 /\ { e \in after : e[1] = parts } = {<<parts, c>>} ]_vars

C27_Witness ==
    /\ count.edits = 1
    /\ SelectionInTree
    /\ heap.nodes[selectedFile].content \in NewContents
    /\ Len(findPath(heap, files, selectedFile, EmptyString, 1)) > 1
    /\ Cardinality({ n \in NodesOf(heap, files) : heap.nodes[n].content \in NewContents }) = 1

\* C28: when a run has executed all its stages without entering the
\* "Workflow failed" branch, the generated component file of the final tree is
\* the selected file and the preview tab is active, whatever component path the
\* code stage returned.
C28_ComponentSelectedAndPreviewed ==
    [][ \A i \in DOMAIN pending :
          (\E reply \in DocReplies : DocsReturn(i, reply))
          => LET filePath == pending[i].locals.filePath
             IN  /\ ~HasLog("Error", "Workflow failed")'
                 /\ selectedFile' \in NodesOf(heap', files')
                 /\ heap'.nodes[selectedFile'].type = "file"
                 /\ findPath(heap', files', selectedFile', EmptyString, 1) = filePath
                 /\ activeTab' = "preview" ]_vars

====
